---- MODULE Spec2Model ----
(***************************************************************************)
(* Model of the guess4 game room: one game_rooms row in the database, the  *)
(* operations of src/lib/gameRoom.ts that read and update it, the database *)
(* trigger and stats function, and the browser sessions of the page        *)
(* (src/hooks/useGameRoom.ts, Home) that decide when each operation runs.  *)
(*                                                                         *)
(* Conventions.  SQL NULL of a TEXT column is the string "null", of an     *)
(* integer column NoPlayer, of a timestamp NoTime.  A 4-digit string is    *)
(* the sequence of its digits, '' is << >> and the NULL secret NullSecret. *)
(* Time is the wall clock in milliseconds, the same for every session.     *)
(***************************************************************************)
EXTENDS Integers, Sequences, FiniteSets, TLC

\* ---- bounds of the model ----
MaxGuesses == 3
TimeLimit == 1
TickMs == 1000
MaxNow == 1000
MaxVersion == 7
MaxVersionLobby == 5
MaxVersionGame == 7
MaxVersionDuel == 9
MaxVersionInput == 5
MaxVersionLive == 13
MaxBase == 2
MaxVersionRally == 11
MaxVersionPace == 9

\* ---- program constants ----
Bonus == 5
DefaultTime == 300
MsPerSecond == 1000
SecretLen == 4

NULL == "null"
NoPlayer == 0
NoTime == -1
NullSecret == <<-1>>
EmptySecret == << >>

Players == {1, 2}
Users == {"A", "B", "C"}
Sessions == {"s1", "s2", "s3"}

\* What each session's user types as a secret: one valid number, one with a
\* repeated digit; and the numbers typed as guesses.
SecretInputs(c) ==
  CASE c = "s1" -> {<<1, 2, 3, 4>>, <<1, 1, 2, 3>>}
    [] c = "s2" -> {<<4, 3, 2, 1>>, <<1, 1, 2, 3>>}
    [] OTHER -> {<<2, 1, 4, 3>>, <<1, 1, 2, 3>>}
GuessInputs == {<<1, 2, 3, 4>>, <<4, 3, 2, 1>>}

\* A character that is not a digit.
NonDigit == 10
Typed == {0, 1, 2, 3, 4, NonDigit}

\* Everything typed into a 4-character field over Typed, a 3-character and a
\* 5-character input.
WideInputs ==
  [1..4 -> Typed] \cup {<<1, 2, 3>>, <<0, 0, 0>>, <<1, 2, 3, 4, 5>>, <<0, 0, 0, 0, 0>>}

VARIABLES room, now, userOf, phase, playerNumber, roomCode, gameRoom, inflight,
          startTrig, expireTriggered, stats, user_stats, limit

vars == <<room, now, userOf, phase, playerNumber, roomCode, gameRoom, inflight,
          startTrig, expireTriggered, stats, user_stats, limit>>

client == <<phase, playerNumber, roomCode, gameRoom, inflight, startTrig,
            expireTriggered, stats>>

\* ---- the row ----

\* nextPlayer = playerNumber === 1 ? 2 : 1
Other(p) == IF p = 1 THEN 2 ELSE 1

\* A player number as the TEXT column winner stores it.
ToText(p) == IF p = 1 THEN "1" ELSE "2"

\* createGameRoom's insert, with the column defaults of the schema.
NewRoom(userId, timeLimit) ==
  [exists |-> TRUE,
   player1_id |-> userId,
   player1_secret |-> EmptySecret,
   player1_guesses |-> << >>,
   player1_ready |-> FALSE,
   player2_id |-> NULL,
   player2_secret |-> EmptySecret,
   player2_guesses |-> << >>,
   player2_ready |-> FALSE,
   current_turn |-> 1,
   game_started |-> FALSE,
   winner |-> NULL,
   finished_at |-> NoTime,
   player1_time_remaining |-> IF timeLimit = 0 THEN DefaultTime ELSE timeLimit,
   player2_time_remaining |-> IF timeLimit = 0 THEN DefaultTime ELSE timeLimit,
   current_turn_player |-> NoPlayer,
   turn_started_at |-> NoTime,
   version |-> 1]

\* The row after DELETE: no row with this room_code.
NoRow == [NewRoom(NULL, 0) EXCEPT !.exists = FALSE]

Secret(r, p) == IF p = 1 THEN r.player1_secret ELSE r.player2_secret
Guesses(r, p) == IF p = 1 THEN r.player1_guesses ELSE r.player2_guesses
Ready(r, p) == IF p = 1 THEN r.player1_ready ELSE r.player2_ready
TimeRemaining(r, p) ==
  IF p = 1 THEN r.player1_time_remaining ELSE r.player2_time_remaining

\* A trigger that adds 2 instead of 1.
increment_game_room_version_Twice(old, new) == [new EXCEPT !.version = old.version + 2]

\* BEFORE UPDATE trigger: the version is computed from the old row.
increment_game_room_version(old, new) == [new EXCEPT !.version = old.version + 1]

\* SET patch: the named columns take the patch's values, the others stay.
Assign(r, patch) ==
  [f \in DOMAIN r |-> IF f \in DOMAIN patch THEN patch[f] ELSE r[f]]

\* Rows matched by UPDATE ... WHERE room_code = X AND where.
Affected(r, where) == r.exists /\ where

\* UPDATE game_rooms SET patch WHERE room_code = X AND where.
Update(r, where, patch) ==
  IF Affected(r, where) THEN increment_game_room_version(r, Assign(r, patch)) ELSE r

\* ---- pure functions ----

\* A validation that lets 0 through.
validateSecretNumber_ZeroAllowed(num) ==
  /\ Len(num) = SecretLen
  /\ \A i \in 1..Len(num) : num[i] \in 0..9
  /\ Cardinality({num[i] : i \in 1..Len(num)}) = SecretLen

\* validateSecretNumber: 4 digits, no 0, no repeated digit.
validateSecretNumber(num) ==
  /\ Len(num) = SecretLen
  /\ \A i \in 1..Len(num) : num[i] \in 0..9
  /\ \A i \in 1..Len(num) : num[i] # 0
  /\ Cardinality({num[i] : i \in 1..Len(num)}) = SecretLen

\* handleSubmitGuess's validation: 4 digits, zeros and repeats allowed.
validateGuess(num) ==
  /\ Len(num) = SecretLen
  /\ \A i \in 1..Len(num) : num[i] \in 0..9

\* A count of the distinct guessed digits found in the secret.
evaluateGuess_DistinctDigits(guess, secret) ==
  [number |-> guess,
   correctDigits |->
     Cardinality({d \in {guess[i] : i \in 1..SecretLen} :
                    \E j \in 1..Len(secret) : secret[j] = d}),
   correctPositions |->
     Cardinality({i \in 1..SecretLen : i <= Len(secret) /\ guess[i] = secret[i]})]

\* A comparison that stops one position early.
evaluateGuess_ThreePositions(guess, secret) ==
  [number |-> guess,
   correctDigits |->
     Cardinality({i \in 1..SecretLen : \E j \in 1..Len(secret) : secret[j] = guess[i]}),
   correctPositions |->
     Cardinality({i \in 1..(SecretLen - 1) : i <= Len(secret) /\ guess[i] = secret[i]})]

\* evaluateGuess: positions that agree, and guess digits found in the secret.
evaluateGuess(guess, secret) ==
  [number |-> guess,
   correctDigits |->
     Cardinality({i \in 1..SecretLen : \E j \in 1..Len(secret) : secret[j] = guess[i]}),
   correctPositions |->
     Cardinality({i \in 1..SecretLen : i <= Len(secret) /\ guess[i] = secret[i]})]

\* Math.floor((now - turnStartTime) / 1000)
elapsedSeconds(turnStart, t) == (t - turnStart) \div MsPerSecond

Max(a, b) == IF a >= b THEN a ELSE b

\* Only the opponent's latest guess is looked at.
GotItCorrect_LastOnly(gs) == Len(gs) > 0 /\ gs[Len(gs)].correctPositions = SecretLen

\* opponentGuesses.some((g) => g.correctPositions === 4)
GotItCorrect(gs) == \E i \in 1..Len(gs) : gs[i].correctPositions = SecretLen

\* ---- src/lib/gameRoom.ts: the statements each operation sends ----

\* getGameRoom: the row, or null when no row has the code.
getGameRoom(r) == IF r.exists THEN r ELSE NoRow

\* A join without the condition on the empty seat.
joinWhere_Always(r) == TRUE

\* joinGameRoom: .update({player2_id}).is("player2_id", null)
joinWhere(r) == r.player2_id = NULL

joinGameRoom(r, userId) == Update(r, joinWhere(r), [player2_id |-> userId])

\* setPlayerSecret: .update(updateData).eq("room_code", roomCode)
setSecretWhere(r, p) == TRUE

\* An updateData that also resets the other player's ready flag.
setSecretPatch_ResetsOther(p, secretNumber) ==
  IF p = 1
  THEN [player1_secret |-> secretNumber, player1_ready |-> TRUE, player2_ready |-> FALSE]
  ELSE [player2_secret |-> secretNumber, player2_ready |-> TRUE, player1_ready |-> FALSE]

setSecretPatch(p, secretNumber) ==
  IF p = 1
  THEN [player1_secret |-> secretNumber, player1_ready |-> TRUE]
  ELSE [player2_secret |-> secretNumber, player2_ready |-> TRUE]

setPlayerSecret(r, p, secretNumber) ==
  Update(r, setSecretWhere(r, p), setSecretPatch(p, secretNumber))

\* A settlement that gives the bonus to both players.
settleTime_BothBonus(r, p, q, t) ==
  IF r.turn_started_at # NoTime /\ r.current_turn_player = p
  THEN IF q = p
       THEN Max(0, TimeRemaining(r, q) - elapsedSeconds(r.turn_started_at, t)) + Bonus
       ELSE TimeRemaining(r, q) + Bonus
  ELSE TimeRemaining(r, q)

\* A settlement that lets the clock go below zero.
settleTime_NoFloor(r, p, q, t) ==
  IF q = p /\ r.turn_started_at # NoTime /\ r.current_turn_player = p
  THEN TimeRemaining(r, q) - elapsedSeconds(r.turn_started_at, t) + Bonus
  ELSE TimeRemaining(r, q)

\* A settlement without the bonus.
settleTime_NoBonus(r, p, q, t) ==
  IF q = p /\ r.turn_started_at # NoTime /\ r.current_turn_player = p
  THEN Max(0, TimeRemaining(r, q) - elapsedSeconds(r.turn_started_at, t))
  ELSE TimeRemaining(r, q)

\* submitGuess: the clock settled for the player who moves, when its clock runs.
settleTime(r, p, q, t) ==
  IF q = p /\ r.turn_started_at # NoTime /\ r.current_turn_player = p
  THEN Max(0, TimeRemaining(r, q) - elapsedSeconds(r.turn_started_at, t)) + Bonus
  ELSE TimeRemaining(r, q)

\* A correct guess of player 1 wins at once.
decideWinner_Immediate(r, p, guess) ==
  IF guess.correctPositions = SecretLen
  THEN IF p = 1 THEN "1"
       ELSE IF GotItCorrect(Guesses(r, Other(p))) THEN "tie" ELSE "2"
  ELSE IF GotItCorrect(Guesses(r, Other(p))) THEN ToText(Other(p)) ELSE NULL

\* submitGuess: the winner decided by this guess, as the column stores it.
decideWinner(r, p, guess) ==
  LET updatedGuesses == Append(Guesses(r, p), guess)
      opponentGuesses == Guesses(r, Other(p))
  IN IF guess.correctPositions = SecretLen
     THEN IF p = 1
          THEN IF Len(opponentGuesses) >= Len(updatedGuesses) THEN "1" ELSE NULL
          ELSE IF GotItCorrect(opponentGuesses) THEN "tie" ELSE "2"
     ELSE IF GotItCorrect(opponentGuesses) THEN ToText(Other(p)) ELSE NULL

\* An updateData that restarts the clock even when the guess decides the game.
submitGuessPatch_ClockKept(r, p, guess, t) ==
  LET winner == decideWinner(r, p, guess)
      common == [player1_time_remaining |-> settleTime(r, p, 1, t),
                 player2_time_remaining |-> settleTime(r, p, 2, t),
                 current_turn |-> Other(p),
                 current_turn_player |-> IF winner # NULL THEN NoPlayer ELSE Other(p),
                 turn_started_at |-> t,
                 winner |-> winner]
  IN IF p = 1
     THEN [f \in DOMAIN common \cup {"player1_guesses"} |->
             IF f = "player1_guesses" THEN Append(r.player1_guesses, guess) ELSE common[f]]
     ELSE [f \in DOMAIN common \cup {"player2_guesses"} |->
             IF f = "player2_guesses" THEN Append(r.player2_guesses, guess) ELSE common[f]]

\* submitGuess: updateData, computed from the room read at time t.
submitGuessPatch(r, p, guess, t) ==
  LET winner == decideWinner(r, p, guess)
      common == [player1_time_remaining |-> settleTime(r, p, 1, t),
                 player2_time_remaining |-> settleTime(r, p, 2, t),
                 current_turn |-> Other(p),
                 current_turn_player |-> IF winner # NULL THEN NoPlayer ELSE Other(p),
                 turn_started_at |-> IF winner # NULL THEN NoTime ELSE t,
                 winner |-> winner]
  IN IF p = 1
     THEN [f \in DOMAIN common \cup {"player1_guesses"} |->
             IF f = "player1_guesses" THEN Append(r.player1_guesses, guess) ELSE common[f]]
     ELSE [f \in DOMAIN common \cup {"player2_guesses"} |->
             IF f = "player2_guesses" THEN Append(r.player2_guesses, guess) ELSE common[f]]

\* The update conditioned on the turn only.
submitGuessWhere_TurnOnly(r, currentVersion, p) == r.current_turn = p

\* The update conditioned on the version only.
submitGuessWhere_VersionOnly(r, currentVersion, p) == r.version = currentVersion

\* The update conditioned on the version or the turn, either sufficing.
submitGuessWhere_VersionOrTurn(r, currentVersion, p) ==
  r.version = currentVersion \/ r.current_turn = p

\* The update with no condition.
submitGuessWhere_Always(r, currentVersion, p) == TRUE

\* submitGuess: .eq("version", currentVersion).eq("current_turn", playerNumber)
submitGuessWhere(r, currentVersion, p) ==
  r.version = currentVersion /\ r.current_turn = p

\* A start without the condition on game_started.
startGameWhere_Always(r) == TRUE

\* startGame: .eq("game_started", false)
startGameWhere(r) == r.game_started = FALSE

\* A start that gives the clock to player 2.
startGamePatch_PlayerTwo(t) ==
  [game_started |-> TRUE, current_turn_player |-> 2, turn_started_at |-> t]

startGamePatch(t) ==
  [game_started |-> TRUE, current_turn_player |-> 1, turn_started_at |-> t]

startGame(r, t) == Update(r, startGameWhere(r), startGamePatch(t))

\* An expiry conditioned on winner only.
expireWhere_WinnerOnly(r, p) == r.winner = NULL

\* handleTimeExpiration: .is("winner", null).eq("current_turn_player", playerNumber)
expireWhere(r, p) == r.winner = NULL /\ r.current_turn_player = p

\* An expiry that leaves the running clock's owner in place.
expirePatch_KeepsTurn(p) == [winner |-> ToText(Other(p))]

expirePatch(p) ==
  [winner |-> ToText(Other(p)), current_turn_player |-> NoPlayer,
   turn_started_at |-> NoTime]

handleTimeExpiration(r, p) == Update(r, expireWhere(r, p), expirePatch(p))

\* A live time that keeps running after the game has ended.
getCurrentTimeRemaining_IgnoresWinner(r, p, t) ==
  IF r.current_turn_player = p /\ r.turn_started_at # NoTime
  THEN Max(0, TimeRemaining(r, p) - elapsedSeconds(r.turn_started_at, t))
  ELSE TimeRemaining(r, p)

\* getCurrentTimeRemaining at wall-clock time t
getCurrentTimeRemaining(r, p, t) ==
  IF r.current_turn_player = p /\ r.turn_started_at # NoTime /\ r.winner = NULL
  THEN Max(0, TimeRemaining(r, p) - elapsedSeconds(r.turn_started_at, t))
  ELSE TimeRemaining(r, p)

\* leaveGame: the branch taken for the room it read.
leaveBranch(r, p) ==
  IF ~r.game_started /\ r.player2_id = NULL /\ p = 1 THEN "delete"
  ELSE IF ~r.game_started /\ r.player2_id # NULL /\ p = 2 THEN "remove"
  ELSE IF r.game_started /\ r.winner = NULL THEN "forfeit"
  ELSE "none"

\* A forfeit without the condition on winner.
forfeitWhere_Always(r) == TRUE

\* leaveGame, forfeit branch: .update({winner, ...}).is("winner", null)
forfeitWhere(r) == r.winner = NULL

forfeitPatch(p) ==
  [winner |-> ToText(Other(p)), current_turn_player |-> NoPlayer,
   turn_started_at |-> NoTime]

removePatch ==
  [player2_id |-> NULL, player2_ready |-> FALSE, player2_secret |-> NullSecret]

\* leaveGame: the write of the branch chosen at the read.
leaveWrite(r, branch, p) ==
  CASE branch = "delete" -> NoRow
    [] branch = "remove" -> Update(r, TRUE, removePatch)
    [] branch = "forfeit" -> Update(r, forfeitWhere(r), forfeitPatch(p))
    [] OTHER -> r

\* update_user_stats_after_game: the SELECT and the two early returns.
statsProceeds(r) == r.exists /\ r.winner # NULL /\ r.finished_at = NoTime

\* update_user_stats_after_game: UPDATE game_rooms SET finished_at = NOW()
statsFinish(r, t) == Update(r, TRUE, [finished_at |-> t])

\* joinGameRoom returns false when the update matched no row.
joinGameRoomReturns(r) == Affected(r, joinWhere(r))

\* submitGuess returns false when the update matched no row.
submitGuessReturns(r, ver, p) == Affected(r, submitGuessWhere(r, ver, p))

\* startGame returns data && data.length > 0
startGameReturns(r) == Affected(r, startGameWhere(r))

\* handleTimeExpiration returns data && data.length > 0
handleTimeExpirationReturns(r, p) == Affected(r, expireWhere(r, p))

\* ---- src/hooks/useGameRoom.ts, Home: the sessions ----

\* The fields of the delivered room that the page's logic reads afterwards
\* (winner, the turn, the clock of the session's player, the opponent's secret).
View(r, p) ==
  IF ~r.exists THEN NoRow
  ELSE [NoRow EXCEPT !.exists = TRUE,
                     !.winner = r.winner,
                     !.current_turn = r.current_turn,
                     !.current_turn_player = r.current_turn_player,
                     !.turn_started_at = r.turn_started_at,
                     !.player1_time_remaining = IF p = 1 THEN r.player1_time_remaining ELSE 0,
                     !.player2_time_remaining = IF p = 2 THEN r.player2_time_remaining ELSE 0,
                     !.player1_secret = IF p = 2 THEN r.player1_secret ELSE EmptySecret,
                     !.player2_secret = IF p = 1 THEN r.player2_secret ELSE EmptySecret]

Idle == [op |-> "none"]
NoStats == [on |-> FALSE]

\* The RPC's SELECT: the row it will count, when neither early return is taken.
statsRead(r) ==
  IF statsProceeds(r)
  THEN [on |-> TRUE, player1_id |-> r.player1_id, player2_id |-> r.player2_id]
  ELSE NoStats

\* const currentVersion = room.version || 1
currentVersion(r) == IF r.version = 0 THEN 1 ELSE r.version

\* subscribeToRoom callback: setPhase((currentPhase) => ...)
nextPhase(r, currentPhase, p) ==
  IF r.winner # NULL /\ currentPhase # "gameover" THEN "gameover"
  ELSE IF r.game_started /\ r.winner = NULL /\ currentPhase \in {"waiting", "setup"}
       THEN "playing"
  ELSE IF currentPhase = "waiting" /\ r.player2_id # NULL /\ p = 1 /\ ~r.player1_ready
       THEN "setup"
  ELSE currentPhase

\* Initialization effect: the phase chosen for the active room found.
resumePhase(r, p) ==
  IF r.winner # NULL THEN "gameover"
  ELSE IF r.game_started THEN "playing"
  ELSE IF p = 1 /\ r.player1_ready /\ ~r.player2_ready THEN "waiting"
  ELSE IF p = 2 /\ r.player2_ready /\ ~r.player1_ready THEN "waiting"
  ELSE IF p = 1 /\ ~r.player1_ready THEN "setup"
  ELSE IF p = 2 /\ ~r.player2_ready THEN "setup"
  ELSE "waiting"

\* getUserActiveRoom: .or(player1_id.eq, player2_id.eq).is("winner", null)
isActiveRoomOf(r, userId) ==
  r.exists /\ (r.player1_id = userId \/ r.player2_id = userId) /\ r.winner = NULL

\* A fresh subscription closure keeps no trigger; a request already sent stays sent.
resetTrig(t) == IF t = "pending" THEN "pending" ELSE "no"

\* The state after createGameRoom by user A in session s1 (handleCreateRoom),
\* with user B signed in on s2 and nobody signed in on s3.
InitSessions ==
  /\ room = NewRoom("A", TimeLimit)
  /\ now = 0
  /\ phase = [c \in Sessions |-> IF c = "s1" THEN "setup" ELSE "menu"]
  /\ playerNumber = [c \in Sessions |-> IF c = "s1" THEN 1 ELSE NoPlayer]
  /\ roomCode = [c \in Sessions |-> c = "s1"]
  /\ gameRoom = [c \in Sessions |-> NoRow]
  /\ inflight = [c \in Sessions |-> Idle]
  /\ startTrig = [c \in Sessions |-> "no"]
  /\ expireTriggered = [c \in Sessions |-> FALSE]
  /\ stats = [c \in Sessions |-> NoStats]
  /\ user_stats = [u \in Users |-> 0]

Init ==
  /\ InitSessions
  /\ userOf = [s1 |-> "A", s2 |-> "B", s3 |-> NULL]
  /\ limit = MaxVersion

\* The same room with a third session signed in: user B's second tab, or a
\* third user C.
InitLobby ==
  /\ InitSessions
  /\ userOf \in {[s1 |-> "A", s2 |-> "B", s3 |-> u] : u \in {"B", "C"}}
  /\ limit = MaxVersionLobby

\* The room of InitLobby, with room for writes after the start of the game.
InitSetup ==
  /\ InitSessions
  /\ userOf \in {[s1 |-> "A", s2 |-> "B", s3 |-> u] : u \in {"B", "C"}}
  /\ limit = MaxVersion

\* The model stops writing to the row at the version limit of the specification.
CanWrite == room.version < limit

\* Wall-clock time passes.
Tick ==
  /\ now + TickMs <= MaxNow
  /\ now' = now + TickMs
  /\ UNCHANGED <<room, userOf, client, user_stats, limit>>

\* The time after which a clock that started from the time limit and was
\* settled once has run out, in milliseconds.
TurnMs == (TimeLimit + Bonus) * MsPerSecond

\* A whole turn's time passes.
Pass ==
  /\ now + TurnMs <= 2 * TurnMs
  /\ now' = now + TurnMs
  /\ UNCHANGED <<room, userOf, client, user_stats, limit>>

\* handleJoinRoom -> useJoinGameRoom.join -> joinGameRoom
Join(c) ==
  /\ CanWrite
  /\ userOf[c] # NULL /\ userOf[c] # room.player1_id
  /\ phase[c] = "menu" /\ ~roomCode[c] /\ inflight[c] = Idle
  /\ room' = joinGameRoom(room, userOf[c])
  /\ IF joinGameRoomReturns(room)
     THEN /\ roomCode' = [roomCode EXCEPT ![c] = TRUE]
          /\ playerNumber' = [playerNumber EXCEPT ![c] = 2]
          /\ phase' = [phase EXCEPT ![c] = "setup"]
          /\ startTrig' = [startTrig EXCEPT ![c] = resetTrig(@)]
     ELSE UNCHANGED <<roomCode, playerNumber, phase, startTrig>>
  /\ UNCHANGED <<now, userOf, gameRoom, inflight, expireTriggered, stats, user_stats, limit>>

\* handleSetSecret -> useSetSecret.setSecret -> setPlayerSecret
SetSecret(c, secret) ==
  /\ CanWrite
  /\ phase[c] = "setup" /\ roomCode[c] /\ playerNumber[c] # NoPlayer
  /\ inflight[c] = Idle
  /\ IF validateSecretNumber(secret)
     THEN /\ room' = setPlayerSecret(room, playerNumber[c], secret)
          /\ phase' = [phase EXCEPT ![c] = "waiting"]
     ELSE UNCHANGED <<room, phase>>
  /\ UNCHANGED <<now, userOf, playerNumber, roomCode, gameRoom, inflight, startTrig,
                 expireTriggered, stats, user_stats, limit>>

\* subscribeToRoom: getGameRoom(roomCode).then(callback), and the callback
Poll(c) ==
  /\ roomCode[c]
  /\ LET r == getGameRoom(room)
         p == playerNumber[c]
         fireStart == /\ r.exists /\ startTrig[c] = "no"
                      /\ ~r.game_started /\ r.player1_ready /\ r.player2_ready
         toGameover == r.exists /\ r.winner # NULL /\ phase[c] # "gameover"
     IN /\ toGameover => stats[c] = NoStats
        /\ gameRoom' = [gameRoom EXCEPT ![c] = View(r, p)]
        /\ startTrig' = [startTrig EXCEPT ![c] = IF fireStart THEN "pending" ELSE @]
        /\ stats' = [stats EXCEPT ![c] = IF toGameover THEN statsRead(r) ELSE @]
        /\ phase' = [phase EXCEPT ![c] = IF r.exists THEN nextPhase(r, @, p) ELSE @]
        /\ expireTriggered' = [expireTriggered EXCEPT ![c] = FALSE]
  /\ UNCHANGED <<room, now, userOf, playerNumber, roomCode, inflight, user_stats, limit>>

\* The startGame request sent by the callback reaches the database.
StartGame(c) ==
  /\ CanWrite
  /\ startTrig[c] = "pending"
  /\ room' = startGame(room, now)
  /\ startTrig' = [startTrig EXCEPT ![c] = "done"]
  /\ UNCHANGED <<now, userOf, phase, playerNumber, roomCode, gameRoom, inflight,
                 expireTriggered, stats, user_stats, limit>>

\* Timer effect: updateTimers finds the session's own clock at zero.
Expire(c) ==
  /\ CanWrite
  /\ phase[c] = "playing" /\ gameRoom[c].exists /\ gameRoom[c].winner = NULL
  /\ playerNumber[c] # NoPlayer /\ ~expireTriggered[c]
  /\ getCurrentTimeRemaining(gameRoom[c], playerNumber[c], now) <= 0
  /\ room' = handleTimeExpiration(room, playerNumber[c])
  /\ expireTriggered' = [expireTriggered EXCEPT ![c] = TRUE]
  /\ UNCHANGED <<now, userOf, phase, playerNumber, roomCode, gameRoom, inflight,
                 startTrig, stats, user_stats, limit>>

\* handleSubmitGuess, then submitGuess up to its computed updateData.
SubmitRead(c, number) ==
  /\ phase[c] = "playing" /\ gameRoom[c].exists /\ playerNumber[c] # NoPlayer
  /\ gameRoom[c].current_turn = playerNumber[c]
  /\ inflight[c] = Idle
  /\ validateGuess(number)
  /\ Len(Secret(gameRoom[c], Other(playerNumber[c]))) = SecretLen
  /\ LET p == playerNumber[c]
         r == getGameRoom(room)
         guess == evaluateGuess(number, Secret(gameRoom[c], Other(p)))
     IN /\ Len(Guesses(r, p)) < MaxGuesses
        /\ IF r.exists
           THEN inflight' = [inflight EXCEPT ![c] =
                   [op |-> "submit", p |-> p, ver |-> currentVersion(r),
                    patch |-> submitGuessPatch(r, p, guess, now)]]
           ELSE UNCHANGED inflight
  /\ UNCHANGED <<room, now, userOf, phase, playerNumber, roomCode, gameRoom,
                 startTrig, expireTriggered, stats, user_stats, limit>>

\* submitGuess: the conditional update.
SubmitWrite(c) ==
  /\ CanWrite
  /\ inflight[c].op = "submit"
  /\ room' = Update(room, submitGuessWhere(room, inflight[c].ver, inflight[c].p),
                    inflight[c].patch)
  /\ inflight' = [inflight EXCEPT ![c] = Idle]
  /\ UNCHANGED <<now, userOf, phase, playerNumber, roomCode, gameRoom, startTrig,
                 expireTriggered, stats, user_stats, limit>>

\* handleLeaveGame -> leaveGame up to the branch chosen for the room read.
LeaveRead(c) ==
  /\ userOf[c] # NULL
  /\ phase[c] \in {"setup", "waiting", "playing"}
  /\ roomCode[c] /\ playerNumber[c] # NoPlayer
  /\ inflight[c] = Idle /\ stats[c] = NoStats
  /\ LET r == getGameRoom(room)
     IN IF r.exists
        THEN inflight' = [inflight EXCEPT ![c] =
                [op |-> "leave", p |-> playerNumber[c], ver |-> r.version,
                 branch |-> leaveBranch(r, playerNumber[c])]]
        ELSE UNCHANGED inflight
  /\ UNCHANGED <<room, now, userOf, phase, playerNumber, roomCode, gameRoom,
                 startTrig, expireTriggered, stats, user_stats, limit>>

\* leaveGame: the branch's write, the stats call after a forfeit, and the reset
\* of the page's state on success.
LeaveWrite(c) ==
  /\ CanWrite
  /\ inflight[c].op = "leave"
  /\ LET b == inflight[c].branch
         after == leaveWrite(room, b, inflight[c].p)
     IN /\ room' = after
        /\ stats' = [stats EXCEPT ![c] = IF b = "forfeit" THEN statsRead(after) ELSE @]
  /\ inflight' = [inflight EXCEPT ![c] = Idle]
  /\ roomCode' = [roomCode EXCEPT ![c] = FALSE]
  /\ playerNumber' = [playerNumber EXCEPT ![c] = NoPlayer]
  /\ gameRoom' = [gameRoom EXCEPT ![c] = NoRow]
  /\ phase' = [phase EXCEPT ![c] = "menu"]
  /\ startTrig' = [startTrig EXCEPT ![c] = resetTrig(@)]
  /\ expireTriggered' = [expireTriggered EXCEPT ![c] = FALSE]
  /\ UNCHANGED <<now, userOf, user_stats, limit>>

\* update_user_stats_after_game after its SELECT: the two upserts into
\* user_stats and the update of finished_at.
StatsWrite(c) ==
  /\ CanWrite
  /\ stats[c].on
  /\ user_stats' = [u \in Users |->
        IF u \in {stats[c].player1_id, stats[c].player2_id}
        THEN user_stats[u] + 1 ELSE user_stats[u]]
  /\ room' = statsFinish(room, now)
  /\ stats' = [stats EXCEPT ![c] = NoStats]
  /\ UNCHANGED <<now, userOf, phase, playerNumber, roomCode, gameRoom, inflight,
                 startTrig, expireTriggered, limit>>

\* handleNewGame
NewGame(c) ==
  /\ phase[c] = "gameover"
  /\ phase' = [phase EXCEPT ![c] = "menu"]
  /\ roomCode' = [roomCode EXCEPT ![c] = FALSE]
  /\ playerNumber' = [playerNumber EXCEPT ![c] = NoPlayer]
  /\ gameRoom' = [gameRoom EXCEPT ![c] = NoRow]
  /\ startTrig' = [startTrig EXCEPT ![c] = resetTrig(@)]
  /\ expireTriggered' = [expireTriggered EXCEPT ![c] = FALSE]
  /\ UNCHANGED <<room, now, userOf, inflight, stats, user_stats, limit>>

\* Initialization effect: getUserActiveRoom finds the user's unfinished room.
Resume(c) ==
  /\ userOf[c] # NULL
  /\ phase[c] = "menu" /\ ~roomCode[c] /\ inflight[c] = Idle
  /\ isActiveRoomOf(room, userOf[c])
  /\ LET p == IF room.player1_id = userOf[c] THEN 1 ELSE 2
     IN /\ playerNumber' = [playerNumber EXCEPT ![c] = p]
        /\ gameRoom' = [gameRoom EXCEPT ![c] = View(room, p)]
        /\ phase' = [phase EXCEPT ![c] = resumePhase(room, p)]
  /\ roomCode' = [roomCode EXCEPT ![c] = TRUE]
  /\ startTrig' = [startTrig EXCEPT ![c] = resetTrig(@)]
  /\ expireTriggered' = [expireTriggered EXCEPT ![c] = FALSE]
  /\ UNCHANGED <<room, now, userOf, inflight, stats, user_stats, limit>>

\* The row after B joined, both secrets were set and startGame was accepted.
StartedRoom ==
  startGame(setPlayerSecret(setPlayerSecret(joinGameRoom(NewRoom("A", TimeLimit), "B"),
                                            2, <<4, 3, 2, 1>>),
                            1, <<1, 2, 3, 4>>),
            0)

SeatOf(u) == IF u = "A" THEN 1 ELSE 2

\* The started game seen by three sessions in the playing phase: s1 (A, whose
\* callback started the game), s2 (B), and s3, a second tab of A or of B that
\* found the room through getUserActiveRoom.
InitGame ==
  /\ room = StartedRoom
  /\ now = 0
  /\ userOf \in {[s1 |-> "A", s2 |-> "B", s3 |-> u] : u \in {"A", "B"}}
  /\ phase = [c \in Sessions |-> "playing"]
  /\ playerNumber = [c \in Sessions |-> SeatOf(userOf[c])]
  /\ roomCode = [c \in Sessions |-> TRUE]
  /\ gameRoom = [c \in Sessions |-> View(StartedRoom, SeatOf(userOf[c]))]
  /\ inflight = [c \in Sessions |-> Idle]
  /\ startTrig = [c \in Sessions |-> IF c = "s1" THEN "done" ELSE "no"]
  /\ expireTriggered = [c \in Sessions |-> FALSE]
  /\ stats = [c \in Sessions |-> NoStats]
  /\ user_stats = [u \in Users |-> 0]
  /\ limit = MaxVersionGame

\* The started game seen by its two players' sessions, nobody signed in on s3.
InitDuel ==
  /\ room = StartedRoom
  /\ now = 0
  /\ userOf = [s1 |-> "A", s2 |-> "B", s3 |-> NULL]
  /\ phase = [c \in Sessions |-> IF c = "s3" THEN "menu" ELSE "playing"]
  /\ playerNumber = [c \in Sessions |-> IF c = "s3" THEN NoPlayer ELSE SeatOf(userOf[c])]
  /\ roomCode = [c \in Sessions |-> c # "s3"]
  /\ gameRoom = [c \in Sessions |->
                   IF c = "s3" THEN NoRow ELSE View(StartedRoom, SeatOf(userOf[c]))]
  /\ inflight = [c \in Sessions |-> Idle]
  /\ startTrig = [c \in Sessions |-> IF c = "s1" THEN "done" ELSE "no"]
  /\ expireTriggered = [c \in Sessions |-> FALSE]
  /\ stats = [c \in Sessions |-> NoStats]
  /\ user_stats = [u \in Users |-> 0]
  /\ limit = MaxVersionDuel

\* The started game of InitDuel, with room for three guesses of each player.
InitRally ==
  /\ room = StartedRoom
  /\ now = 0
  /\ userOf = [s1 |-> "A", s2 |-> "B", s3 |-> NULL]
  /\ phase = [c \in Sessions |-> IF c = "s3" THEN "menu" ELSE "playing"]
  /\ playerNumber = [c \in Sessions |-> IF c = "s3" THEN NoPlayer ELSE SeatOf(userOf[c])]
  /\ roomCode = [c \in Sessions |-> c # "s3"]
  /\ gameRoom = [c \in Sessions |->
                   IF c = "s3" THEN NoRow ELSE View(StartedRoom, SeatOf(userOf[c]))]
  /\ inflight = [c \in Sessions |-> Idle]
  /\ startTrig = [c \in Sessions |-> IF c = "s1" THEN "done" ELSE "no"]
  /\ expireTriggered = [c \in Sessions |-> FALSE]
  /\ stats = [c \in Sessions |-> NoStats]
  /\ user_stats = [u \in Users |-> 0]
  /\ limit = MaxVersionRally

\* The started game of InitDuel, for the specification of the running clients.
InitLive ==
  /\ room = StartedRoom
  /\ now = 0
  /\ userOf = [s1 |-> "A", s2 |-> "B", s3 |-> NULL]
  /\ phase = [c \in Sessions |-> IF c = "s3" THEN "menu" ELSE "playing"]
  /\ playerNumber = [c \in Sessions |-> IF c = "s3" THEN NoPlayer ELSE SeatOf(userOf[c])]
  /\ roomCode = [c \in Sessions |-> c # "s3"]
  /\ gameRoom = [c \in Sessions |->
                   IF c = "s3" THEN NoRow ELSE View(StartedRoom, SeatOf(userOf[c]))]
  /\ inflight = [c \in Sessions |-> Idle]
  /\ startTrig = [c \in Sessions |-> IF c = "s1" THEN "done" ELSE "no"]
  /\ expireTriggered = [c \in Sessions |-> FALSE]
  /\ stats = [c \in Sessions |-> NoStats]
  /\ user_stats = [u \in Users |-> 0]
  /\ limit = MaxVersionLive

\* The started game of InitLive, for a few moves at the clock's pace.
InitPace ==
  /\ room = StartedRoom
  /\ now = 0
  /\ userOf = [s1 |-> "A", s2 |-> "B", s3 |-> NULL]
  /\ phase = [c \in Sessions |-> IF c = "s3" THEN "menu" ELSE "playing"]
  /\ playerNumber = [c \in Sessions |-> IF c = "s3" THEN NoPlayer ELSE SeatOf(userOf[c])]
  /\ roomCode = [c \in Sessions |-> c # "s3"]
  /\ gameRoom = [c \in Sessions |->
                   IF c = "s3" THEN NoRow ELSE View(StartedRoom, SeatOf(userOf[c]))]
  /\ inflight = [c \in Sessions |-> Idle]
  /\ startTrig = [c \in Sessions |-> IF c = "s1" THEN "done" ELSE "no"]
  /\ expireTriggered = [c \in Sessions |-> FALSE]
  /\ stats = [c \in Sessions |-> NoStats]
  /\ user_stats = [u \in Users |-> 0]
  /\ limit = MaxVersionPace

\* The values of winner, and the turn start times handed to
\* getCurrentTimeRemaining: none, the present, half a second and a second and
\* a half later (written by a client whose clock is ahead).
Winners == {NULL, "1", "2", "tie"}
StartTimes == {NoTime, 0, 500, 1500}

\* Any GameRoom value of a started game in the fields getCurrentTimeRemaining
\* reads, held by the row and by the two players' pages.
InitClock ==
  /\ room \in {[StartedRoom EXCEPT !.winner = w,
                                    !.current_turn_player = a,
                                    !.turn_started_at = s,
                                    !.player1_time_remaining = b1,
                                    !.player2_time_remaining = b2] :
                  w \in Winners, a \in {NoPlayer, 1, 2}, s \in StartTimes,
                  b1 \in 0..MaxBase, b2 \in 0..MaxBase}
  /\ now = 0
  /\ userOf = [s1 |-> "A", s2 |-> "B", s3 |-> NULL]
  /\ phase = [c \in Sessions |-> IF c = "s3" THEN "menu" ELSE "playing"]
  /\ playerNumber = [c \in Sessions |-> IF c = "s3" THEN NoPlayer ELSE SeatOf(userOf[c])]
  /\ roomCode = [c \in Sessions |-> c # "s3"]
  /\ gameRoom = [c \in Sessions |->
                   IF c = "s3" THEN NoRow ELSE View(room, SeatOf(userOf[c]))]
  /\ inflight = [c \in Sessions |-> Idle]
  /\ startTrig = [c \in Sessions |-> IF c = "s1" THEN "done" ELSE "no"]
  /\ expireTriggered = [c \in Sessions |-> FALSE]
  /\ stats = [c \in Sessions |-> NoStats]
  /\ user_stats = [u \in Users |-> 0]
  /\ limit = MaxVersionGame

\* The room of Init, for the specification of typed inputs.
InitInput ==
  /\ InitSessions
  /\ userOf = [s1 |-> "A", s2 |-> "B", s3 |-> NULL]
  /\ limit = MaxVersionInput

Next ==
  \/ Tick
  \/ \E c \in Sessions : Join(c)
  \/ \E c \in Sessions : \E secret \in SecretInputs(c) : SetSecret(c, secret)
  \/ \E c \in Sessions : Poll(c)
  \/ \E c \in Sessions : StartGame(c)
  \/ \E c \in Sessions : Expire(c)
  \/ \E c \in Sessions : \E number \in GuessInputs : SubmitRead(c, number)
  \/ \E c \in Sessions : SubmitWrite(c)
  \/ \E c \in Sessions : LeaveRead(c)
  \/ \E c \in Sessions : LeaveWrite(c)
  \/ \E c \in Sessions : StatsWrite(c)
  \/ \E c \in Sessions : NewGame(c)
  \/ \E c \in Sessions : Resume(c)

\* The operations available before the game has started.
NextLobby ==
  \/ Tick
  \/ \E c \in Sessions : Join(c)
  \/ \E c \in Sessions : \E secret \in SecretInputs(c) : SetSecret(c, secret)
  \/ \E c \in Sessions : Poll(c)
  \/ \E c \in Sessions : StartGame(c)
  \/ \E c \in Sessions : LeaveRead(c)
  \/ \E c \in Sessions : LeaveWrite(c)
  \/ \E c \in Sessions : Resume(c)

\* Joining, setting the secrets and starting, with nobody leaving.
NextSetup ==
  \/ Tick
  \/ \E c \in Sessions : Join(c)
  \/ \E c \in Sessions : \E secret \in SecretInputs(c) : SetSecret(c, secret)
  \/ \E c \in Sessions : Poll(c)
  \/ \E c \in Sessions : StartGame(c)
  \/ \E c \in Sessions : Resume(c)

\* The guessing operations of a started game.
NextGame ==
  \/ Tick
  \/ \E c \in Sessions : Poll(c)
  \/ \E c \in Sessions : Expire(c)
  \/ \E c \in Sessions : \E number \in GuessInputs : SubmitRead(c, number)
  \/ \E c \in Sessions : SubmitWrite(c)

\* Every operation of a started game.
NextDuel ==
  \/ Tick
  \/ \E c \in Sessions : Poll(c)
  \/ \E c \in Sessions : Expire(c)
  \/ \E c \in Sessions : \E number \in GuessInputs : SubmitRead(c, number)
  \/ \E c \in Sessions : SubmitWrite(c)
  \/ \E c \in Sessions : LeaveRead(c)
  \/ \E c \in Sessions : LeaveWrite(c)
  \/ \E c \in Sessions : StatsWrite(c)
  \/ \E c \in Sessions : NewGame(c)
  \/ \E c \in Sessions : Resume(c)

\* Player 1 sets 1234; player 2 types anything as a secret; once the game has
\* started player 1 types anything as a guess.
NextInput ==
  \/ \E c \in Sessions : Join(c)
  \/ SetSecret("s1", <<1, 2, 3, 4>>)
  \/ phase["s2"] = "setup" /\ \E secret \in WideInputs : SetSecret("s2", secret)
  \/ \E c \in Sessions : Poll(c)
  \/ \E c \in Sessions : StartGame(c)
  \/ /\ phase["s1"] = "playing" /\ inflight["s1"] = Idle
     /\ \E number \in WideInputs : SubmitRead("s1", number)

\* The two players guess and their pages receive the row.
NextRally ==
  \/ \E c \in Sessions : Poll(c)
  \/ \E c \in Sessions : \E number \in GuessInputs : SubmitRead(c, number)
  \/ \E c \in Sessions : SubmitWrite(c)

\* The two players' pages stay open on the game: the subscription polls, the
\* timer runs, guesses are typed and their requests arrive.
NextLive ==
  \/ Pass
  \/ \E c \in Sessions : Poll(c)
  \/ \E c \in Sessions : Expire(c)
  \/ \E c \in Sessions : \E number \in GuessInputs : SubmitRead(c, number)
  \/ \E c \in Sessions : SubmitWrite(c)

\* setInterval keeps the subscription's poll and the timer's updateTimers
\* running, and a request that was sent reaches the database.
FairLive ==
  \A c \in Sessions :
    WF_vars(Poll(c)) /\ WF_vars(Expire(c)) /\ WF_vars(SubmitWrite(c))

\* The timer: time passes, the page receives the row, updateTimers computes
\* the live times and reports its own clock at zero.
NextClock ==
  \/ Tick
  \/ \E c \in Sessions : Poll(c)
  \/ \E c \in Sessions : Expire(c)

\* Two signed-in sessions, every operation.
Spec == Init /\ [][Next]_vars

\* Three signed-in sessions, up to the start of the game.
SpecLobby == InitLobby /\ [][NextLobby]_vars

\* Three signed-in sessions setting up the game, nobody leaving.
SpecSetup == InitSetup /\ [][NextSetup]_vars

\* Three sessions in a started game.
SpecGame == InitGame /\ [][NextGame]_vars

\* The two players' sessions in a started game.
SpecDuel == InitDuel /\ [][NextDuel]_vars

\* Typed secrets and guesses.
SpecInput == InitInput /\ [][NextInput]_vars

\* The two players' sessions exchanging guesses.
SpecRally == InitRally /\ [][NextRally]_vars

\* The timer on any room value.
SpecClock == InitClock /\ [][NextClock]_vars

\* The two players' sessions in a started game, whole turns passing.
SpecPace == InitPace /\ [][NextLive]_vars

\* The two players' sessions in a started game, with running clients.
SpecLive == InitLive /\ [][NextLive]_vars /\ FairLive

\* ---- claims ----

RowKept == room.exists /\ room'.exists

\* C1 (as claimed): once winner is non-null, no step changes it to another
\* value or back to unset.
C1_WinnerWriteOnce ==
  [][(RowKept /\ room.winner # NULL) => room'.winner = room.winner]_vars

\* C2: of the submitGuess calls that read the room at the same version at most
\* one write is accepted: once one is accepted, no other call in flight with
\* that version can be, and a call whose version is stale changes nothing.
C2_OneAcceptedPerVersion ==
  [][\A c \in Sessions :
       SubmitWrite(c) =>
         /\ inflight[c].ver # room.version => room' = room
         /\ room' # room =>
              \A d \in Sessions \ {c} :
                (inflight[d].op = "submit" /\ inflight[d].ver = inflight[c].ver)
                  => ~submitGuessReturns(room', inflight[d].ver, inflight[d].p)]_vars

\* Two tabs of player 1 read the row at the version of the start; one guess of
\* player 1 has been accepted and the other tab's call is still in flight.
C2_Witness ==
  /\ userOf["s3"] = "A"
  /\ inflight["s3"].op = "submit" /\ inflight["s3"].p = 1
  /\ inflight["s3"].ver = StartedRoom.version
  /\ inflight["s1"] = Idle
  /\ Len(room.player1_guesses) = 1
  /\ room.version = StartedRoom.version + 1

\* C3: the two guess lists differ in length by at most 1 in every reachable state.
C3_GuessLengths ==
  room.exists =>
    /\ Len(room.player1_guesses) - Len(room.player2_guesses) <= 1
    /\ Len(room.player2_guesses) - Len(room.player1_guesses) <= 1

\* Both players have guessed once and another submitGuess is in flight.
C3_Witness ==
  /\ Len(room.player1_guesses) = 1 /\ Len(room.player2_guesses) = 1
  /\ \E c \in Sessions : inflight[c].op = "submit"

\* C4: every update of the row increases version by exactly 1.
C4_VersionStep ==
  [][(RowKept /\ room' # room) => room'.version = room.version + 1]_vars

\* Join, two secrets, start, a decided game and the stats update: six updates
\* after version 1.
C4_Witness ==
  /\ room.version = 7 /\ room.finished_at # NoTime /\ room.winner # NULL

\* C5 (as claimed): a write computed from a read at version v changes nothing
\* when the row's version is no longer v.
C5_StaleWriteRejected ==
  [][\A c \in Sessions :
       (/\ inflight[c].op \in {"submit", "leave"}
        /\ inflight[c].ver # room.version
        /\ (SubmitWrite(c) \/ LeaveWrite(c)))
         => room' = room]_vars

\* C6: current_turn_player is non-null iff the game is started and winner is unset.
C6_TurnPlayerIff ==
  room.exists =>
    (room.current_turn_player # NoPlayer <=> (room.game_started /\ room.winner = NULL))

\* A game decided on the clock after player 1's guess.
C6_Witness ==
  /\ room.game_started /\ room.winner # NULL /\ room.current_turn_player = NoPlayer
  /\ Len(room.player1_guesses) = 1 /\ Len(room.player2_guesses) = 0

\* C7 (as claimed): game_started becomes true only by a write that finds both
\* ready flags true, and never becomes false again.
C7_StartNeedsReady ==
  [][RowKept =>
       /\ (~room.game_started /\ room'.game_started)
            => (room.player1_ready /\ room.player2_ready)
       /\ room.game_started => room'.game_started]_vars

C9_SecretFixed ==
  [][\A p \in Players :
       (RowKept /\ Ready(room, p) /\ Ready(room', p))
         => Secret(room', p) = Secret(room, p)]_vars

\* C10: a join on a room with player2_id unset is accepted, makes the caller
\* player2_id and leaves the room in a state where no other join is accepted;
\* a join on a room whose player2_id is set changes nothing.
C10_JoinOnce ==
  [][\A c \in Sessions :
       Join(c) =>
         IF joinGameRoomReturns(room)
         THEN /\ room.player2_id = NULL
              /\ room'.player2_id = userOf[c]
              /\ ~joinGameRoomReturns(room')
         ELSE room' = room /\ phase'[c] = "menu"]_vars

\* User C took the seat; user B is still on the menu.
C10_Witness ==
  /\ userOf["s3"] = "C" /\ room.player2_id = "C"
  /\ phase["s3"] = "setup" /\ phase["s2"] = "menu"

\* The guess appended by an accepted submitGuess of player p.
NewGuess(p) == Guesses(room', p)[Len(Guesses(room', p))]

Accepted(c) == SubmitWrite(c) /\ room' # room

\* C11: handleTimeExpiration(p) changes the row iff winner is unset and
\* current_turn_player = p when it arrives; then it sets winner to the other
\* player and clears current_turn_player and turn_started_at, after which the
\* same call is not accepted again; otherwise the row stays as it is.
C11_ExpireIff ==
  [][\A c \in Sessions :
       Expire(c) =>
         LET p == playerNumber[c]
         IN IF room.exists /\ room.winner = NULL /\ room.current_turn_player = p
            THEN /\ room' = [room EXCEPT !.winner = ToText(Other(p)),
                                         !.current_turn_player = NoPlayer,
                                         !.turn_started_at = NoTime,
                                         !.version = @ + 1]
                 /\ ~handleTimeExpirationReturns(room', p)
            ELSE room' = room]_vars

\* Both tabs of player 1 found the clock at zero and called; one update.
C11_Witness ==
  /\ userOf["s3"] = "A" /\ expireTriggered["s1"] /\ expireTriggered["s3"]
  /\ room.winner = "2" /\ room.current_turn_player = NoPlayer
  /\ room.version = StartedRoom.version + 1

\* C12: when player 1's n-th guess is correct and player 2 has n-1 guesses,
\* the write leaves winner unset and passes the turn to player 2; player 2's
\* n-th guess then sets winner to "tie" if it is correct and to "1" if not.
C12_EqualTurns ==
  [][\A c \in Sessions :
       Accepted(c) =>
         LET p == inflight[c].p
         IN /\ (/\ p = 1
                /\ NewGuess(1).correctPositions = SecretLen
                /\ Len(room.player2_guesses) = Len(room.player1_guesses))
                 => (/\ room'.winner = NULL
                     /\ room'.current_turn = 2
                     /\ room'.current_turn_player = 2)
            /\ (/\ p = 2
                /\ Len(room.player1_guesses) = Len(room.player2_guesses) + 1
                /\ room.player1_guesses[Len(room.player1_guesses)].correctPositions
                     = SecretLen)
                 => room'.winner =
                      IF NewGuess(2).correctPositions = SecretLen THEN "tie" ELSE "1"]_vars

\* Both players found the number on their second guess.
C12_Witness ==
  /\ room.winner = "tie"
  /\ Len(room.player1_guesses) = 2 /\ Len(room.player2_guesses) = 2
  /\ room.player1_guesses[1].correctPositions # SecretLen

\* C13: an accepted correct guess of player 2 sets winner in the same write:
\* "tie" if some guess of player 1 has 4 correct positions, "2" otherwise.
C13_PlayerTwoCorrect ==
  [][\A c \in Sessions :
       (Accepted(c) /\ inflight[c].p = 2 /\ NewGuess(2).correctPositions = SecretLen)
         => room'.winner =
              IF \E i \in 1..Len(room.player1_guesses) :
                   room.player1_guesses[i].correctPositions = SecretLen
              THEN "tie" ELSE "2"]_vars

\* Player 2 alone found the number, on the second guess.
C13_Witness ==
  /\ room.winner = "2"
  /\ Len(room.player1_guesses) = 2 /\ Len(room.player2_guesses) = 2
  /\ room.player2_guesses[2].correctPositions = SecretLen

\* C14 (as claimed): an accepted submitGuess that sets winner leaves the two
\* guess lists with the same length.
C14_WinnerAtEqualTurns ==
  [][\A c \in Sessions :
       (Accepted(c) /\ room'.winner # NULL)
         => Len(room'.player1_guesses) = Len(room'.player2_guesses)]_vars

\* C15: a submitGuess whose version or turn condition fails leaves the row as
\* it is and returns false.
C15_FailedSubmitNoChange ==
  [][\A c \in Sessions :
       (SubmitWrite(c)
          /\ (room.version # inflight[c].ver \/ room.current_turn # inflight[c].p))
         => /\ room' = room
            /\ ~submitGuessReturns(room, inflight[c].ver, inflight[c].p)]_vars

\* A call that read the current version, sent from a page whose snapshot
\* still shows its own turn, while the row's turn is the opponent's.
C15_Witness ==
  \E c \in Sessions :
    /\ inflight[c].op = "submit" /\ room.exists
    /\ inflight[c].ver = room.version
    /\ room.current_turn # inflight[c].p
    /\ room.winner = NULL

\* C16 (as claimed): once winner is set no step changes the guess lists, the
\* time baselines, current_turn, current_turn_player or turn_started_at.
C16_Terminal ==
  [][(RowKept /\ room.winner # NULL)
       => /\ room'.player1_guesses = room.player1_guesses
          /\ room'.player2_guesses = room.player2_guesses
          /\ room'.player1_time_remaining = room.player1_time_remaining
          /\ room'.player2_time_remaining = room.player2_time_remaining
          /\ room'.current_turn = room.current_turn
          /\ room'.current_turn_player = NoPlayer
          /\ room'.turn_started_at = NoTime]_vars

\* C17 (as claimed): the stats function counts a room at most once: no
\* player's counters are incremented twice for the one room.
C17_StatsOnce == \A u \in Users : user_stats[u] <= 1

\* Exactly 4 characters, each a digit from 1 to 9, no two equal.
IsSecret(num) ==
  /\ Len(num) = 4
  /\ \A i \in 1..Len(num) : num[i] >= 1 /\ num[i] <= 9
  /\ \A i, j \in 1..Len(num) : i # j => num[i] # num[j]

\* Exactly 4 characters, each a digit.
IsFourDigits(num) ==
  Len(num) = 4 /\ \A i \in 1..Len(num) : num[i] >= 0 /\ num[i] <= 9

\* The row after player p's secret has been stored.
WithSecret(r, p, secret) ==
  IF p = 1
  THEN [r EXCEPT !.player1_secret = secret, !.player1_ready = TRUE, !.version = @ + 1]
  ELSE [r EXCEPT !.player2_secret = secret, !.player2_ready = TRUE, !.version = @ + 1]

\* C18: on the setup form a typed secret is written (secret and ready flag)
\* iff it has exactly 4 characters, all digits, no 0 and no repeat, and any
\* other input changes nothing; on the guess form a typed number goes to
\* submitGuess iff it has exactly 4 characters, all digits.
C18_Validation ==
  /\ (phase["s2"] = "setup" /\ room.exists /\ CanWrite) =>
       \A secret \in WideInputs :
         /\ (ENABLED (SetSecret("s2", secret) /\ room' # room)) <=> IsSecret(secret)
         /\ IsSecret(secret) =>
              ENABLED (SetSecret("s2", secret) /\ room' = WithSecret(room, 2, secret))
  /\ (/\ phase["s1"] = "playing" /\ inflight["s1"] = Idle
      /\ gameRoom["s1"].exists /\ gameRoom["s1"].current_turn = 1) =>
       \A number \in WideInputs :
         (ENABLED SubmitRead("s1", number)) <=> IsFourDigits(number)

\* Player 2's secret 4321 is stored and player 1's guess 0000 is on its way.
C18_Witness ==
  /\ room.player2_secret = <<4, 3, 2, 1>> /\ room.player2_ready
  /\ inflight["s1"].op = "submit"
  /\ inflight["s1"].patch.player1_guesses[1].number = <<0, 0, 0, 0>>

\* C19: every scored guess has correctPositions <= correctDigits, and
\* correctPositions = 4 iff the guess equals the secret.
C19_Score ==
  \A c \in Sessions :
    inflight[c].op = "submit" =>
      LET gs == IF inflight[c].p = 1 THEN inflight[c].patch.player1_guesses
                                     ELSE inflight[c].patch.player2_guesses
          g == gs[Len(gs)]
          secret == Secret(room, Other(inflight[c].p))
      IN /\ g.correctPositions <= g.correctDigits
         /\ g.correctPositions = 4 <=> g.number = secret

\* A guess with a repeated digit scored against 4321: 3 digits, 1 position.
C19_Witness ==
  /\ inflight["s1"].op = "submit" /\ room.player2_secret = <<4, 3, 2, 1>>
  /\ inflight["s1"].patch.player1_guesses[1] =
       [number |-> <<4, 4, 1, 0>>, correctDigits |-> 3, correctPositions |-> 1]

\* The time baseline of player p in a submitGuess patch.
PatchTime(patch, p) ==
  IF p = 1 THEN patch.player1_time_remaining ELSE patch.player2_time_remaining

\* C20: while player p's clock runs and p does not move, p's live remaining
\* time never increases from one step to the next; when submitGuess settles
\* p's move, the baseline it computes is the live remaining time at that
\* moment plus the bonus, and that baseline is what an accepted write stores.
C20_Clock ==
  [][/\ \A p \in Players :
          (/\ RowKept
           /\ room.current_turn_player = p /\ room'.current_turn_player = p
           /\ Guesses(room', p) = Guesses(room, p))
            => getCurrentTimeRemaining(room', p, now')
                 <= getCurrentTimeRemaining(room, p, now)
     /\ \A c \in Sessions :
          (/\ inflight[c].op = "none" /\ inflight'[c].op = "submit"
           /\ room.current_turn_player = inflight'[c].p)
            => PatchTime(inflight'[c].patch, inflight'[c].p)
                 = getCurrentTimeRemaining(room, inflight'[c].p, now) + 5
     /\ \A c \in Sessions :
          Accepted(c)
            => TimeRemaining(room', inflight[c].p)
                 = PatchTime(inflight[c].patch, inflight[c].p)]_vars

\* Player 1 moved after one second of a one-second limit: 0 left, plus 5.
C20_Witness ==
  /\ Len(room.player1_guesses) = 1 /\ Len(room.player2_guesses) = 0
  /\ now = TickMs /\ room.turn_started_at = TickMs
  /\ room.player1_time_remaining = TimeLimit - 1 + 5

\* C21: leaveGame takes the forfeit branch iff the room it read is started with
\* winner unset; its write then sets winner to the leaver's opponent and clears
\* current_turn_player and turn_started_at, unless a winner was decided since
\* the read, which is kept with the whole row; the stats function is called on
\* the row after the write.
C21_Forfeit ==
  [][\A c \in Sessions :
       /\ (LeaveRead(c) /\ inflight'[c].op = "leave")
            => (inflight'[c].branch = "forfeit"
                  <=> (room.game_started /\ room.winner = NULL))
       /\ (LeaveWrite(c) /\ inflight[c].branch = "forfeit")
            => /\ IF room.exists /\ room.winner = NULL
                  THEN room' = [room EXCEPT !.winner = ToText(Other(inflight[c].p)),
                                            !.current_turn_player = NoPlayer,
                                            !.turn_started_at = NoTime,
                                            !.version = @ + 1]
                  ELSE room' = room
               /\ stats'[c] = statsRead(room')]_vars

\* Both players left the running game before any guess: player 2's forfeit was
\* written first and player 1's found the winner decided.
C21_Witness ==
  /\ room.winner = "1" /\ room.version = StartedRoom.version + 1
  /\ Len(room.player1_guesses) = 0 /\ Len(room.player2_guesses) = 0
  /\ phase["s1"] = "menu" /\ phase["s2"] = "menu"
  /\ stats["s1"].on /\ stats["s2"].on

\* The row's clock of player p runs and has reached zero.
TimeIsUp(p) ==
  /\ room.exists /\ room.winner = NULL /\ room.current_turn_player = p
  /\ getCurrentTimeRemaining(room, p, now) = 0

\* C22 (as claimed): when the active player p's live remaining time has
\* reached 0, then, unless a guess of p is accepted, eventually winner is the
\* other player and current_turn_player is null.
C22_ExpiryHappens ==
  \A p \in Players : \A n \in 0..MaxGuesses :
    (TimeIsUp(p) /\ Len(Guesses(room, p)) = n /\ CanWrite)
      ~> \/ room.winner = ToText(Other(p)) /\ room.current_turn_player = NoPlayer
         \/ Len(Guesses(room, p)) # n

\* A submitGuess call of session c has read the room and built its updateData.
Built(c) == inflight[c].op = "none" /\ inflight'[c].op = "submit"

\* C23 (as claimed): after an accepted submitGuess of player p, if a winner is
\* decided current_turn_player and turn_started_at are null; otherwise
\* current_turn and current_turn_player are the other player and
\* turn_started_at is the time of the write.
C23_TurnAtWriteTime ==
  [][\A c \in Sessions :
       Accepted(c) =>
         IF room'.winner # NULL
         THEN room'.current_turn_player = NoPlayer /\ room'.turn_started_at = NoTime
         ELSE /\ room'.current_turn = Other(inflight[c].p)
              /\ room'.current_turn_player = Other(inflight[c].p)
              /\ room'.turn_started_at = now]_vars

\* C23 (amended): as claimed, except that turn_started_at is the time at which
\* submitGuess built its update, after its read of the room and before the
\* update was sent, which is not later than the time of the write.
C23_TurnAfterGuess ==
  [][\A c \in Sessions :
       /\ Built(c) =>
            inflight'[c].patch.turn_started_at =
              IF inflight'[c].patch.winner # NULL THEN NoTime ELSE now
       /\ Accepted(c) =>
            IF room'.winner # NULL
            THEN room'.current_turn_player = NoPlayer /\ room'.turn_started_at = NoTime
            ELSE /\ room'.current_turn = Other(inflight[c].p)
                 /\ room'.current_turn_player = Other(inflight[c].p)
                 /\ room'.turn_started_at = inflight[c].patch.turn_started_at
                 /\ room'.turn_started_at # NoTime
                 /\ room'.turn_started_at <= now]_vars

\* Player 2 answered player 1's guess a second later: the turn and the clock
\* are player 1's again, started at that time.
C23_Witness ==
  /\ Len(room.player1_guesses) = 1 /\ Len(room.player2_guesses) = 1
  /\ room.winner = NULL /\ room.current_turn = 1 /\ room.current_turn_player = 1
  /\ room.turn_started_at = TickMs

\* C24: in every reachable state where current_turn_player is non-null it
\* equals current_turn.
C24_TurnsTogether ==
  (room.exists /\ room.current_turn_player # NoPlayer)
    => room.current_turn_player = room.current_turn

\* The game was started from the lobby and player 1 has guessed: the turn and
\* the clock are both player 2's.
C24_Witness ==
  /\ room.game_started /\ Len(room.player1_guesses) = 1
  /\ room.current_turn = 2 /\ room.current_turn_player = 2

\* C25: when submitGuess is called by the player p whose clock runs, with e
\* the whole seconds from turn_started_at to the call, the baseline it
\* computes for p is max(0, baseline - e) + 5, and an accepted write stores
\* that value, computed from the baseline the row held until the write.
C25_Settle ==
  [][\A c \in Sessions :
       /\ (Built(c) /\ room.current_turn_player = inflight'[c].p)
            => LET p == inflight'[c].p
                   e == (now - room.turn_started_at) \div 1000
               IN PatchTime(inflight'[c].patch, p) = Max(0, TimeRemaining(room, p) - e) + 5
       /\ (Accepted(c) /\ room.current_turn_player = inflight[c].p)
            => LET p == inflight[c].p
               IN /\ TimeRemaining(room', p) = PatchTime(inflight[c].patch, p)
                  /\ \E e \in 0..((now - room.turn_started_at) \div 1000) :
                       TimeRemaining(room', p) = Max(0, TimeRemaining(room, p) - e) + 5]_vars

\* Player 1 moved six seconds into a one-second limit: the clock is floored
\* at 0 and gets the 5 seconds.
C25_Witness ==
  /\ Len(room.player1_guesses) = 1 /\ Len(room.player2_guesses) = 0
  /\ room.turn_started_at = TurnMs /\ room.current_turn_player = 2
  /\ room.player1_time_remaining = 5

\* C26: an accepted submitGuess of player p leaves the opponent's time
\* baseline and guess list, both secrets and both ready flags as they were,
\* and its update carries both players' baselines.
C26_OpponentUntouched ==
  [][\A c \in Sessions :
       Accepted(c) =>
         LET q == Other(inflight[c].p)
         IN /\ TimeRemaining(room', q) = TimeRemaining(room, q)
            /\ Guesses(room', q) = Guesses(room, q)
            /\ \A r \in Players :
                 Secret(room', r) = Secret(room, r) /\ Ready(room', r) = Ready(room, r)
            /\ {"player1_time_remaining", "player2_time_remaining"}
                 \subseteq DOMAIN inflight[c].patch]_vars

\* Player 2 answered a second after player 1's guess: player 1 keeps the 6
\* seconds of its own move, player 2 has 0 + 5.
C26_Witness ==
  /\ Len(room.player1_guesses) = 1 /\ Len(room.player2_guesses) = 1
  /\ room.winner = NULL
  /\ room.player1_time_remaining = TimeLimit + 5
  /\ room.player2_time_remaining = TimeLimit - 1 + 5

\* C27: getCurrentTimeRemaining(room, p) is p's persisted baseline when winner
\* is set, or p is not current_turn_player, or turn_started_at is null;
\* otherwise it is max(0, baseline - floor((now - turn_started_at) / 1000)).
\* This holds for the row and for the copy each page's timer reads.
C27_LiveRemaining ==
  \A p \in Players :
    \A r \in {room} \cup {gameRoom[c] : c \in {d \in Sessions : playerNumber[d] = p}} :
      LET baseline == TimeRemaining(r, p)
          left == baseline - ((now - r.turn_started_at) \div 1000)
      IN getCurrentTimeRemaining(r, p, now) =
           IF r.winner # NULL \/ r.current_turn_player # p \/ r.turn_started_at = NoTime
           THEN baseline
           ELSE IF left > 0 THEN left ELSE 0

\* Player 1's clock of 2 seconds has run for one second, in the row and in the
\* copy player 1's page received.
C27_Witness ==
  /\ room.winner = NULL /\ room.current_turn_player = 1
  /\ room.turn_started_at = 0 /\ now = TickMs
  /\ room.player1_time_remaining = 2
  /\ getCurrentTimeRemaining(room, 1, now) = 1
  /\ gameRoom["s1"] = View(room, 1)

\* C28: while the players join, set their secrets and the game is started, a
\* setSecret call of player p changes p's secret and ready flag and no other
\* field of the row (but the version), whatever was written since the page
\* last received the row; and every player whose call has completed is ready
\* with a stored secret, so that after both calls both flags are true.
C28_SecretFrame ==
  [][\A c \in Sessions :
       /\ \A secret \in SecretInputs(c) :
            (SetSecret(c, secret) /\ validateSecretNumber(secret))
              => room' = WithSecret(room, playerNumber[c], secret)
       /\ (playerNumber'[c] # NoPlayer /\ phase'[c] \in {"waiting", "playing"})
            => /\ Ready(room', playerNumber'[c])
               /\ IsSecret(Secret(room', playerNumber'[c]))]_vars

\* Both players set their secrets before either page received the other's
\* update.
C28_Witness ==
  /\ phase["s1"] = "waiting" /\ phase["s2"] = "waiting"
  /\ ~gameRoom["s1"].exists /\ ~gameRoom["s2"].exists
  /\ room.player1_ready /\ room.player2_ready
  /\ room.player1_secret = <<1, 2, 3, 4>> /\ room.player2_secret = <<4, 3, 2, 1>>
  /\ ~room.game_started

\* The number of indices i in 1..n where hit[i] holds.
RECURSIVE CountHits(_, _)
CountHits(hit, n) ==
  IF n = 0 THEN 0 ELSE (IF hit[n] THEN 1 ELSE 0) + CountHits(hit, n - 1)

\* The reference score: positions where guess and secret agree, and positions
\* of the guess whose digit occurs somewhere in the secret.
RefPositions(guess, secret) ==
  CountHits([i \in 1..4 |-> guess[i] = secret[i]], 4)

RefDigits(guess, secret) ==
  CountHits([i \in 1..4 |-> \E j \in 1..4 : guess[i] = secret[j]], 4)

\* C29: every guess the page scores carries the reference score against the
\* opponent's secret: correctPositions counts the indices where guess and
\* secret agree, correctDigits the indices of the guess whose digit occurs in
\* the secret, a repeated guessed digit counting each time.
C29_ReferenceScore ==
  \A c \in Sessions :
    inflight[c].op = "submit" =>
      LET gs == IF inflight[c].p = 1 THEN inflight[c].patch.player1_guesses
                                     ELSE inflight[c].patch.player2_guesses
          g == gs[Len(gs)]
          secret == Secret(room, Other(inflight[c].p))
      IN /\ g.correctPositions = RefPositions(g.number, secret)
         /\ g.correctDigits = RefDigits(g.number, secret)

\* The guess 1243 scored against the secret 1234: 4 digits, 2 positions.
C29_Witness ==
  /\ inflight["s1"].op = "submit" /\ room.player2_secret = <<1, 2, 3, 4>>
  /\ inflight["s1"].patch.player1_guesses[1] =
       [number |-> <<1, 2, 4, 3>>, correctDigits |-> 4, correctPositions |-> 2]

\* C30 (as claimed): no guess is appended while the opponent's secret is
\* empty: a submitGuess goes out only from a page that holds the opponent's
\* secret, and a guess is accepted only while the row holds it.
C30_NoGuessWithoutSecret ==
  [][\A c \in Sessions :
       /\ Built(c) =>
            Len(Secret(gameRoom[c], Other(inflight'[c].p))) = 4
       /\ Accepted(c) =>
            Len(Secret(room, Other(inflight[c].p))) = 4]_vars

\* C31 (as claimed): when player 2's leave is written to a room that has not
\* started, player2_id, player2_ready and player 2's secret are cleared and
\* nothing else changes, a join by another user is then accepted, and the game
\* does not start while the seat is empty or its player has set no secret.
C31_SeatReopened ==
  [][/\ \A c \in Sessions :
          (LeaveWrite(c) /\ inflight[c].branch = "remove"
             /\ room.exists /\ ~room.game_started)
            => /\ room' = [room EXCEPT !.player2_id = NULL,
                                        !.player2_ready = FALSE,
                                        !.player2_secret = NullSecret,
                                        !.version = @ + 1]
               /\ joinGameRoomReturns(room')
     /\ (RowKept /\ ~room.game_started /\ room'.game_started)
          => (room.player2_id # NULL /\ room.player2_ready)]_vars

\* C32 (as claimed): the row is deleted only in a step that finds it without
\* a player 2 and not started.
C32_DeleteOnlyEmpty ==
  [][(room.exists /\ ~room'.exists)
       => (room.player2_id = NULL /\ ~room.game_started)]_vars

\* C33: in every reachable state player 1 has as many guesses as player 2 or
\* one more, and current_turn is 1 exactly when the two lists have the same
\* length.
C33_Alternation ==
  room.exists =>
    LET ahead == Len(room.player1_guesses) - Len(room.player2_guesses)
    IN /\ ahead \in {0, 1}
       /\ room.current_turn = 1 <=> ahead = 0
       /\ room.current_turn = 2 <=> ahead = 1

\* Player 1 has made its second guess and player 2 is to answer it.
C33_Witness ==
  /\ Len(room.player1_guesses) = 2 /\ Len(room.player2_guesses) = 1
  /\ room.current_turn = 2 /\ room.winner = NULL

\* C34 (as claimed): an accepted submitGuess of player 1 in a room whose
\* winner is unset leaves winner unset, whatever the guess: player 2 then has
\* fewer guesses than player 1 will have; and winner becomes "1" only by a
\* guess, an expiry or a forfeit of player 2.
C34_PlayerOneNeverWinsAtOnce ==
  [][/\ \A c \in Sessions :
          (Accepted(c) /\ inflight[c].p = 1)
            => /\ Len(room.player2_guesses) < Len(room.player1_guesses) + 1
               /\ room.winner = NULL => room'.winner = NULL
     /\ (RowKept /\ room.winner # "1" /\ room'.winner = "1")
          => \E c \in Sessions :
               \/ Accepted(c) /\ inflight[c].p = 2
               \/ Expire(c) /\ playerNumber[c] = 2
               \/ LeaveWrite(c) /\ inflight[c].p = 2]_vars

\* C35 (as claimed): whenever an expiry write of player p is accepted, the
\* live remaining time of p derived from the row at that moment is 0; an
\* expiry computed from an old snapshot is not accepted once p has moved and
\* the turn has come back to p with a fresh baseline.
C35_ExpiryOnlyAtZero ==
  [][\A c \in Sessions :
       (Expire(c) /\ room' # room)
         => getCurrentTimeRemaining(room, playerNumber[c], now) = 0]_vars

\* The live remaining time submitGuess derived from the row it read, for the
\* player whose clock ran: what it settled, before the bonus.
ReadRemaining(c) == PatchTime(inflight[c].patch, inflight[c].p) - Bonus

\* C36 (as claimed): no submitGuess of the active player is accepted when
\* the live remaining time of that player, derived from the row it read, is 0.
C36_NoMoveAtZero ==
  [][\A c \in Sessions :
       (Accepted(c) /\ room.winner = NULL
          /\ room.current_turn_player = inflight[c].p)
         => ReadRemaining(c) > 0]_vars

\* C37 (as claimed): when a guess and an expiry of the same active player are
\* issued from the same observed room state, at most one of the two writes is
\* accepted, in either order of arrival. The expiry is issued from the row the
\* page of p shows, in which p is to move and no winner is set; while guesses
\* and expiries are the only writes, the first write after that row is p's
\* guess read from it or p's expiry. So an accepted expiry from a page that
\* shows an earlier row follows an accepted guess issued from that same row
\* (the guess arrived first), and a guess still in flight from the row the
\* expiry changes must be refused afterwards (the expiry arrived first).
C37_AtMostOne ==
  [][\A c \in Sessions :
       (Expire(c) /\ room' # room)
         => /\ gameRoom[c] = View(room, playerNumber[c])
            /\ \A d \in Sessions :
                 (/\ inflight[d].op = "submit" /\ inflight[d].p = playerNumber[c]
                  /\ inflight[d].ver = room.version)
                   => ~submitGuessReturns(room', inflight[d].ver, inflight[d].p)]_vars

\* C38 (as claimed): in every reachable state each guess stored for player p
\* carries the score of its number against the secret of the other player
\* stored in the same row.
C38_StoredScore ==
  room.exists =>
    \A p \in Players : \A i \in 1..Len(Guesses(room, p)) :
      LET g == Guesses(room, p)[i]
          secret == Secret(room, Other(p))
      IN /\ Len(secret) = SecretLen
         /\ g = evaluateGuess(g.number, secret)

\* C39 (as claimed): in every reachable state a non-null winner implies that
\* game_started is true and both secrets are set, and no guess list is
\* non-empty while game_started is false.
C39_WinnerNeedsGame ==
  room.exists =>
    /\ room.winner # NULL =>
         /\ room.game_started
         /\ \A p \in Players : Len(Secret(room, p)) = SecretLen
    /\ ~room.game_started =>
         \A p \in Players : Guesses(room, p) = << >>

====
